---- MODULE Spec2Model ----
(***************************************************************************)
(* Model of contracts/CreditAnalyzer.sol: the per-address submission /     *)
(* evaluation / approval-request state machine and the scoring rubric that *)
(* evaluateCreditScore computes on euint8 / euint32 ciphertexts.           *)
(*                                                                         *)
(* A ciphertext is modelled as [h |-> handle, v |-> plaintext].  The       *)
(* handle is what the ACL is keyed by; the plaintext is what the FHE       *)
(* operations compute on.  A 32-bit plaintext is kept as two 16-bit limbs  *)
(* [hi, lo] so that the full uint32 range, and the wrap of FHE.mul, can be *)
(* represented exactly.                                                    *)
(***************************************************************************)
EXTENDS Integers, Sequences, FiniteSets, Bags, TLC

VARIABLES owner, totalEvaluations, creditSubmissions, creditEvaluations,
          acl, events, now, lastCall, returned

\* the client-side transaction pipeline (TransactionExecutor.executeTransaction)
VARIABLES pc, attempt, options, estimate, chain, depth, lastError, statusLog, txCount,
          outcome

\* the state of the React component App that submitCreditData reads and writes
VARIABLES creditData, appMessage, loading, plain

cvars == <<owner, totalEvaluations, creditSubmissions, creditEvaluations,
           acl, events, now, lastCall, returned>>

pvars == <<pc, attempt, options, estimate, chain, depth, lastError, statusLog, txCount,
           outcome>>

avars == <<creditData, appMessage, loading, plain>>

\* the running score of an evaluation whose adjustments are applied one at a
\* time, and the adjustments applied so far
VARIABLES accumulator, applied

rvars == <<accumulator, applied>>

vars == <<owner, totalEvaluations, creditSubmissions, creditEvaluations,
          acl, events, now, lastCall, returned,
          pc, attempt, options, estimate, chain, depth, lastError, statusLog, txCount,
          outcome, creditData, appMessage, loading, plain, accumulator, applied>>

(***************************************************************************)
(* Bounds of the model                                                     *)
(***************************************************************************)
MaxTime == 2
MaxRequests == 2
MaxRetries == 2
MaxConfirmations == 2

(***************************************************************************)
(* Addresses                                                               *)
(***************************************************************************)
Deployer == "admin"
Users == {"admin", "alice"}

\* an address that never sends a transaction and only calls the read functions
Outsider == "bob"
Callers == Users \cup {Outsider}
This == "contract"

(***************************************************************************)
(* Score constants of the contract                                         *)
(***************************************************************************)
EXCELLENT_SCORE == 5
GOOD_SCORE == 4
FAIR_SCORE == 3
POOR_SCORE == 2
BAD_SCORE == 1

(***************************************************************************)
(* Plaintext arithmetic of the FHE library on euint8 / euint32             *)
(***************************************************************************)
Limb == 2^16

U32(hi, lo) == [hi |-> hi, lo |-> lo]

\* a uint32 literal below 2^16, as FHE.asEuint32(n) is used in the contract
asEuint32(n) == U32(0, n)

asEuint8(n) == n % 256

add8(a, b) == (a + b) % 256

\* mutant: subtraction that stops at zero instead of wrapping
sub8_Saturating(a, b) == IF a < b THEN 0 ELSE a - b

sub8(a, b) == (a - b + 256) % 256

gt8(a, b) == a > b

lt8(a, b) == a < b

ge8(a, b) == a >= b

eq8(a, b) == a = b

gt32(a, b) == (a.hi > b.hi) \/ (a.hi = b.hi /\ a.lo > b.lo)

\* 32-bit product, wrapping modulo 2^32
mul32(a, b) ==
    LET p == a.lo * b.lo
    IN  U32((a.hi * b.lo + a.lo * b.hi + (p \div Limb)) % Limb, p % Limb)

select(c, a, b) == IF c THEN a ELSE b

(***************************************************************************)
(* The scoring rubric (internal functions of the contract), on plaintexts  *)
(***************************************************************************)
_calculateBaseScore == asEuint8(FAIR_SCORE)

_applyAgeBonus(score, age) ==
    LET ageBonus == gt8(age, asEuint8(25))
        s1 == select(ageBonus, add8(score, asEuint8(1)), score)
        matureAgeBonus == gt8(age, asEuint8(40))
    IN  select(matureAgeBonus, add8(s1, asEuint8(1)), s1)

_applyCreditHistoryBonus(score, creditHistory) ==
    LET historyBonus == gt8(creditHistory, asEuint8(5))
        s1 == select(historyBonus, add8(score, asEuint8(1)), score)
        longHistoryBonus == gt8(creditHistory, asEuint8(10))
    IN  select(longHistoryBonus, add8(s1, asEuint8(1)), s1)

_applyPaymentHistoryBonus(score, paymentHistory) ==
    LET paymentBonus == gt8(paymentHistory, asEuint8(7))
        s1 == select(paymentBonus, add8(score, asEuint8(1)), score)
        perfectPayment == eq8(paymentHistory, asEuint8(10))
    IN  select(perfectPayment, add8(s1, asEuint8(1)), s1)

_applyDebtPenalty(score, debt, income) ==
    LET highDebt == gt32(debt, asEuint32(20000))
        s1 == select(highDebt, sub8(score, asEuint8(1)), score)
        veryHighDebt == gt32(debt, asEuint32(50000))
        s2 == select(veryHighDebt, sub8(s1, asEuint8(1)), s1)
        debtExceedsIncome == gt32(debt, income)
        s3 == select(debtExceedsIncome, sub8(s2, asEuint8(2)), s2)
        doubleIncome == mul32(income, asEuint32(2))
        debtExceedsDoubleIncome == gt32(debt, doubleIncome)
    IN  select(debtExceedsDoubleIncome, sub8(s3, asEuint8(1)), s3)

_applyIncomeBonus(score, income) ==
    LET incomeBonus == gt32(income, asEuint32(5000))
        s1 == select(incomeBonus, add8(score, asEuint8(1)), score)
        highIncomeBonus == gt32(income, asEuint32(10000))
    IN  select(highIncomeBonus, add8(s1, asEuint8(1)), s1)

\* mutant: the lower limit is not enforced
_enforceScoreLimits_NoLowerLimit(score) ==
    LET scoreTooHigh == gt8(score, asEuint8(5))
    IN  select(scoreTooHigh, asEuint8(5), score)

_enforceScoreLimits(score) ==
    LET scoreTooLow == lt8(score, asEuint8(1))
        s1 == select(scoreTooLow, asEuint8(1), score)
        scoreTooHigh == gt8(s1, asEuint8(5))
    IN  select(scoreTooHigh, asEuint8(5), s1)

\* the score evaluateCreditScore computes from the five stored plaintexts
\* (lines 102-108), before it is stored
ComputeScore(d) ==
    LET s0 == _calculateBaseScore
        s1 == _applyAgeBonus(s0, d.encryptedAge.v)
        s2 == _applyCreditHistoryBonus(s1, d.encryptedCreditHistory.v)
        s3 == _applyPaymentHistoryBonus(s2, d.encryptedPaymentHistory.v)
        s4 == _applyDebtPenalty(s3, d.encryptedDebt.v, d.encryptedIncome.v)
        s5 == _applyIncomeBonus(s4, d.encryptedIncome.v)
    IN  _enforceScoreLimits(s5)

\* the approval flag (line 111)
ComputeApproved(score) == ge8(score, asEuint8(FAIR_SCORE))

(***************************************************************************)
(* Storage: structs, their zero values, handles                            *)
(***************************************************************************)
NoHandle == [kind |-> "none", by |-> "none"]

Handle(kind, by) == [kind |-> kind, by |-> by]

Cipher(h, v) == [h |-> h, v |-> v]

\* the value of a mapping slot that was never written
EmptyCreditData ==
    [encryptedIncome |-> Cipher(NoHandle, U32(0, 0)),
     encryptedDebt |-> Cipher(NoHandle, U32(0, 0)),
     encryptedAge |-> Cipher(NoHandle, 0),
     encryptedCreditHistory |-> Cipher(NoHandle, 0),
     encryptedPaymentHistory |-> Cipher(NoHandle, 0),
     hasSubmitted |-> FALSE,
     submissionTime |-> 0]

EmptyCreditEvaluation ==
    [encryptedScore |-> Cipher(NoHandle, 0),
     isEvaluated |-> FALSE,
     evaluationTime |-> 0,
     isApproved |-> Cipher(NoHandle, FALSE)]

Event(name, user, timestamp) == [name |-> name, user |-> user, timestamp |-> timestamp]

Emit(e) == events' = events (+) SetToBag({e})

Call(op, sender, user, result) == [op |-> op, sender |-> sender, user |-> user, result |-> result]

\* a require(...) that fails: the transaction reverts and storage is unchanged
Revert(op, sender, user, reason) ==
    /\ lastCall' = Call(op, sender, user, reason)
    /\ UNCHANGED <<owner, totalEvaluations, creditSubmissions, creditEvaluations,
                   acl, events, now>>

\* FHE.allow / FHE.allowThis: add the address to the handle's permitted set
allow(a, h, addr) == a \cup {<<h, addr>>}

isAllowed(h, addr) == <<h, addr>> \in acl

(***************************************************************************)
(* The plaintext inputs the callers choose from                            *)
(***************************************************************************)
Plain(income, debt, age, creditHistory, paymentHistory) ==
    [income |-> income, debt |-> debt, age |-> age,
     creditHistory |-> creditHistory, paymentHistory |-> paymentHistory]

ScenarioA == Plain(U32(0, 8000), U32(0, 5000), 35, 8, 9)
ScenarioB == Plain(U32(0, 2000), U32(0, 30000), 20, 1, 3)
ScenarioC == Plain(U32(0, 15000), U32(0, 1000), 45, 15, 10)

InputSet == {ScenarioA, ScenarioB}

\* the five ciphertexts a sender produces by encrypting plaintexts p itself
Encrypt(sender, p) ==
    [encryptedIncome |-> Cipher(Handle("income", sender), p.income),
     encryptedDebt |-> Cipher(Handle("debt", sender), p.debt),
     encryptedAge |-> Cipher(Handle("age", sender), p.age),
     encryptedCreditHistory |-> Cipher(Handle("creditHistory", sender), p.creditHistory),
     encryptedPaymentHistory |-> Cipher(Handle("paymentHistory", sender), p.paymentHistory)]

Args(d) ==
    [encryptedIncome |-> d.encryptedIncome,
     encryptedDebt |-> d.encryptedDebt,
     encryptedAge |-> d.encryptedAge,
     encryptedCreditHistory |-> d.encryptedCreditHistory,
     encryptedPaymentHistory |-> d.encryptedPaymentHistory]

\* the arguments a sender can pass to submitCreditData: its own encryptions,
\* or the five handles another address has already stored on chain
SubmitArgs(sender) ==
    {Encrypt(sender, p) : p \in InputSet}
      \cup {Args(creditSubmissions[u]) : u \in {x \in Users : creditSubmissions[x].hasSubmitted}}

(***************************************************************************)
(* The contract                                                            *)
(***************************************************************************)
\* the contract right after its constructor
ContractInit ==
    /\ owner = Deployer
    /\ totalEvaluations = 0
    /\ creditSubmissions = [u \in Users |-> EmptyCreditData]
    /\ creditEvaluations = [u \in Users |-> EmptyCreditEvaluation]
    /\ acl = {}
    /\ events = EmptyBag
    /\ now = 1
    /\ lastCall = Call("constructor", Deployer, Deployer, "ok")
    /\ returned = {}

\* no executeTransaction call is in progress
NoError == [code |-> 0, message |-> "", has |-> {}]

NoEstimate == [path |-> "none", raw |-> 0, gasLimit |-> 0, simFailed |-> FALSE]

NoResult == [kind |-> "none", hash |-> 0, status |-> 0, message |-> ""]

PipelineIdle ==
    /\ pc = "idle"
    /\ attempt = 0
    /\ options = [confirmations |-> 1, retries |-> 1]
    /\ estimate = NoEstimate
    /\ chain = "none"
    /\ depth = 0
    /\ lastError = NoError
    /\ statusLog = << >>
    /\ txCount = 0
    /\ outcome = NoResult

\* a text field of the form: the characters of its value
EmptyField == << >>

NoMessage == [text |-> "", type |-> "info"]

NoPlain == [income |-> -1, debt |-> -1, age |-> -1, creditHistory |-> -1,
            paymentHistory |-> -1]

EmptyForm == [income |-> EmptyField, debt |-> EmptyField, age |-> EmptyField,
              creditHistory |-> EmptyField, paymentHistory |-> EmptyField]

AppIdle ==
    /\ creditData = EmptyForm
    /\ appMessage = NoMessage
    /\ loading = FALSE
    /\ plain = NoPlain

\* no evaluation is being stepped through
RubricIdle == accumulator = 0 /\ applied = {}

Init == ContractInit /\ PipelineIdle /\ AppIdle /\ RubricIdle

\* mutant: the require looks at the evaluation instead of the submission
NotYetSubmitted_WrongFlag(sender) == ~creditEvaluations[sender].isEvaluated

\* the condition of the require in submitCreditData
NotYetSubmitted(sender) == ~creditSubmissions[sender].hasSubmitted

\* mutant: the three 8-bit handles are not granted to the sender
_grantDataAccessPermissions_NoSender8(a, sender, income, debt, age, creditHistory, paymentHistory) ==
    a \cup { <<c.h, This>> : c \in {income, debt} }
      \cup { <<c.h, This>> : c \in {age, creditHistory, paymentHistory} }
      \cup { <<c.h, sender>> : c \in {income, debt} }

_grantDataAccessPermissions(a, sender, income, debt, age, creditHistory, paymentHistory) ==
    a \cup { <<c.h, This>> : c \in {income, debt} }
      \cup { <<c.h, This>> : c \in {age, creditHistory, paymentHistory} }
      \cup { <<c.h, sender>> : c \in {income, debt} }
      \cup { <<c.h, sender>> : c \in {age, creditHistory, paymentHistory} }

submitCreditData(sender, a) ==
    IF ~NotYetSubmitted(sender)
    THEN Revert("submitCreditData", sender, sender, "Data already submitted")
    ELSE /\ creditSubmissions' = [creditSubmissions EXCEPT ![sender] =
                [encryptedIncome |-> a.encryptedIncome,
                 encryptedDebt |-> a.encryptedDebt,
                 encryptedAge |-> a.encryptedAge,
                 encryptedCreditHistory |-> a.encryptedCreditHistory,
                 encryptedPaymentHistory |-> a.encryptedPaymentHistory,
                 hasSubmitted |-> TRUE,
                 submissionTime |-> now]]
         /\ acl' = _grantDataAccessPermissions(acl, sender, a.encryptedIncome,
                       a.encryptedDebt, a.encryptedAge, a.encryptedCreditHistory,
                       a.encryptedPaymentHistory)
         /\ Emit(Event("CreditDataSubmitted", sender, now))
         /\ lastCall' = Call("submitCreditData", sender, sender, "ok")
         /\ UNCHANGED <<owner, totalEvaluations, creditEvaluations, now>>

\* mutant: the modifier lets every caller through
hasSubmittedData_Missing(sender) == TRUE

\* the condition of the modifier hasSubmittedData
hasSubmittedData(sender) == creditSubmissions[sender].hasSubmitted

\* mutant: the require looks at the caller's evaluation instead of the user's
NotYetEvaluated_OfSender(sender, user) == ~creditEvaluations[sender].isEvaluated

\* the condition of the second require in evaluateCreditScore
NotYetEvaluated(sender, user) == ~creditEvaluations[user].isEvaluated

\* mutant: the evaluation is not counted
evaluateCreditScore_NoCount(sender, user) ==
    IF ~hasSubmittedData(sender)
    THEN Revert("evaluateCreditScore", sender, user, "No credit data submitted")
    ELSE IF ~(sender = user \/ sender = owner)
    THEN Revert("evaluateCreditScore", sender, user, "Not authorized to evaluate")
    ELSE IF ~NotYetEvaluated(sender, user)
    THEN Revert("evaluateCreditScore", sender, user, "Already evaluated")
    ELSE LET data == creditSubmissions[user]
             score == Cipher(Handle("score", user), ComputeScore(data))
             approved == Cipher(Handle("approved", user), ComputeApproved(score.v))
         IN  /\ creditEvaluations' = [creditEvaluations EXCEPT ![user] =
                    [encryptedScore |-> score,
                     isEvaluated |-> TRUE,
                     evaluationTime |-> now,
                     isApproved |-> approved]]
             /\ acl' = allow(allow(allow(allow(acl, score.h, This), approved.h, This),
                                   score.h, user), approved.h, user)
             /\ Emit(Event("CreditEvaluated", user, now))
             /\ lastCall' = Call("evaluateCreditScore", sender, user, "ok")
             /\ UNCHANGED <<owner, totalEvaluations, creditSubmissions, now>>

evaluateCreditScore(sender, user) ==
    IF ~hasSubmittedData(sender)
    THEN Revert("evaluateCreditScore", sender, user, "No credit data submitted")
    ELSE IF ~(sender = user \/ sender = owner)
    THEN Revert("evaluateCreditScore", sender, user, "Not authorized to evaluate")
    ELSE IF ~NotYetEvaluated(sender, user)
    THEN Revert("evaluateCreditScore", sender, user, "Already evaluated")
    ELSE LET data == creditSubmissions[user]
             score == Cipher(Handle("score", user), ComputeScore(data))
             approved == Cipher(Handle("approved", user), ComputeApproved(score.v))
         IN  /\ creditEvaluations' = [creditEvaluations EXCEPT ![user] =
                    [encryptedScore |-> score,
                     isEvaluated |-> TRUE,
                     evaluationTime |-> now,
                     isApproved |-> approved]]
             /\ acl' = allow(allow(allow(allow(acl, score.h, This), approved.h, This),
                                   score.h, user), approved.h, user)
             /\ totalEvaluations' = totalEvaluations + 1
             /\ Emit(Event("CreditEvaluated", user, now))
             /\ lastCall' = Call("evaluateCreditScore", sender, user, "ok")
             /\ UNCHANGED <<owner, creditSubmissions, now>>

\* mutant: the require looks at the submission instead of the evaluation
IsEvaluated_WrongFlag(sender) == creditSubmissions[sender].hasSubmitted

\* the condition of the require in requestLoanApproval
IsEvaluated(sender) == creditEvaluations[sender].isEvaluated

\* number of LoanApprovalRequested events emitted for a user so far
Requests(user) ==
    LET es == {e \in BagToSet(events) : e.name = "LoanApprovalRequested" /\ e.user = user}
        RECURSIVE Sum(_)
        Sum(S) == IF S = {} THEN 0
                  ELSE LET e == CHOOSE x \in S : TRUE
                       IN  CopiesIn(e, events) + Sum(S \ {e})
    IN  Sum(es)

\* mutant: the request is counted as an evaluation
requestLoanApproval_CountsEvaluation(sender) ==
    IF ~hasSubmittedData(sender)
    THEN Revert("requestLoanApproval", sender, sender, "No credit data submitted")
    ELSE IF ~IsEvaluated(sender)
    THEN Revert("requestLoanApproval", sender, sender, "Credit not evaluated yet")
    ELSE /\ Requests(sender) < MaxRequests
         /\ Emit(Event("LoanApprovalRequested", sender, now))
         /\ lastCall' = Call("requestLoanApproval", sender, sender, "ok")
         /\ totalEvaluations' = totalEvaluations + 1
         /\ UNCHANGED <<owner, creditSubmissions, creditEvaluations, acl, now>>

requestLoanApproval(sender) ==
    IF ~hasSubmittedData(sender)
    THEN Revert("requestLoanApproval", sender, sender, "No credit data submitted")
    ELSE IF ~IsEvaluated(sender)
    THEN Revert("requestLoanApproval", sender, sender, "Credit not evaluated yet")
    ELSE /\ Requests(sender) < MaxRequests
         /\ Emit(Event("LoanApprovalRequested", sender, now))
         /\ lastCall' = Call("requestLoanApproval", sender, sender, "ok")
         /\ UNCHANGED <<owner, totalEvaluations, creditSubmissions, creditEvaluations,
                        acl, now>>

(***************************************************************************)
(* The read functions: the explicit getters and the accessors Solidity     *)
(* generates for the two public mappings.  A view call changes no storage; *)
(* the model records the call and the handles it handed to the caller.     *)
(***************************************************************************)
View(op, sender, user, result, handles) ==
    /\ lastCall' = Call(op, sender, user, result)
    /\ returned' = handles
    /\ UNCHANGED <<owner, totalEvaluations, creditSubmissions, creditEvaluations,
                   acl, events, now>>

\* mutant: the authorization require is missing
MayRead_Anyone(sender, user) == TRUE

\* the condition of the first require of the two getters
MayRead(sender, user) == sender = user \/ sender = owner

getEncryptedCreditScore(sender, user) ==
    IF ~MayRead(sender, user)
    THEN View("getEncryptedCreditScore", sender, user, "Not authorized", {})
    ELSE IF ~creditEvaluations[user].isEvaluated
    THEN View("getEncryptedCreditScore", sender, user, "Not evaluated", {})
    ELSE View("getEncryptedCreditScore", sender, user, "ok",
              {creditEvaluations[user].encryptedScore.h})

getEncryptedLoanApproval(sender, user) ==
    IF ~MayRead(sender, user)
    THEN View("getEncryptedLoanApproval", sender, user, "Not authorized", {})
    ELSE IF ~creditEvaluations[user].isEvaluated
    THEN View("getEncryptedLoanApproval", sender, user, "Not evaluated", {})
    ELSE View("getEncryptedLoanApproval", sender, user, "ok",
              {creditEvaluations[user].isApproved.h})

\* the ciphertext handles of a stored record / evaluation
RecordHandles(d) ==
    {d.encryptedIncome.h, d.encryptedDebt.h, d.encryptedAge.h,
     d.encryptedCreditHistory.h, d.encryptedPaymentHistory.h}

EvaluationHandles(e) == {e.encryptedScore.h, e.isApproved.h}

\* accessor of the public mapping creditSubmissions: returns the fields of
\* the struct, the five handles included, to any caller
creditSubmissionsGetter(sender, user) ==
    View("creditSubmissions", sender, user, "ok", RecordHandles(creditSubmissions[user]))

\* accessor of the public mapping creditEvaluations
creditEvaluationsGetter(sender, user) ==
    View("creditEvaluations", sender, user, "ok", EvaluationHandles(creditEvaluations[user]))

\* block.timestamp advances between blocks
Tick ==
    /\ now < MaxTime
    /\ now' = now + 1
    /\ UNCHANGED <<owner, totalEvaluations, creditSubmissions, creditEvaluations,
                   acl, events, lastCall, returned>>
    /\ UNCHANGED pvars /\ UNCHANGED avars /\ UNCHANGED rvars

\* a transaction hands no handle to its sender
NoReturn == returned' = {}

Submit ==
    \E sender \in Users : \E a \in SubmitArgs(sender) :
        submitCreditData(sender, a) /\ NoReturn /\ UNCHANGED pvars /\ UNCHANGED avars /\ UNCHANGED rvars

Evaluate ==
    \E sender \in Users : \E user \in Users :
        evaluateCreditScore(sender, user) /\ NoReturn /\ UNCHANGED pvars /\ UNCHANGED avars /\ UNCHANGED rvars

RequestApproval ==
    \E sender \in Users : requestLoanApproval(sender) /\ NoReturn /\ UNCHANGED pvars /\ UNCHANGED avars /\ UNCHANGED rvars

ReadScore ==
    \E sender \in Callers : \E user \in Users :
        getEncryptedCreditScore(sender, user) /\ UNCHANGED pvars /\ UNCHANGED avars /\ UNCHANGED rvars

ReadApproval ==
    \E sender \in Callers : \E user \in Users :
        getEncryptedLoanApproval(sender, user) /\ UNCHANGED pvars /\ UNCHANGED avars /\ UNCHANGED rvars

ReadRecord ==
    \E sender \in Callers : \E user \in Users :
        creditSubmissionsGetter(sender, user) /\ UNCHANGED pvars /\ UNCHANGED avars /\ UNCHANGED rvars

ReadEvaluation ==
    \E sender \in Callers : \E user \in Users :
        creditEvaluationsGetter(sender, user) /\ UNCHANGED pvars /\ UNCHANGED avars /\ UNCHANGED rvars

Next == Submit \/ Evaluate \/ RequestApproval \/ Tick

Spec == Init /\ [][Next]_vars

(***************************************************************************)
(* The ledger together with its read functions.  What a read returns does  *)
(* not depend on block.timestamp nor on the LoanApprovalRequested events,  *)
(* so this specification keeps the block time fixed.                       *)
(***************************************************************************)
ReadNext ==
    \/ Submit \/ Evaluate
    \/ ReadScore \/ ReadApproval \/ ReadRecord \/ ReadEvaluation

ReadSpec == Init /\ [][ReadNext]_vars

(***************************************************************************)
(* The scoring rubric on a wide range of inputs: the contract right after  *)
(* alice's submitCreditData, for every choice of the five plaintexts       *)
(***************************************************************************)
IncomeSet == {U32(0, 0), U32(0, 1), U32(0, 2000), U32(0, 5000), U32(0, 5001),
              U32(0, 8000), U32(0, 10000), U32(0, 10001), U32(0, 15000),
              U32(32767, 65535), U32(32768, 0), U32(65535, 65535)}

DebtSet == {U32(0, 0), U32(0, 1), U32(0, 1000), U32(0, 5000), U32(0, 20000),
            U32(0, 20001), U32(0, 30000), U32(0, 50000), U32(0, 50001),
            U32(1, 0), U32(65535, 65535)}

AgeSet == {0, 20, 25, 26, 35, 40, 41, 45, 255}

CreditHistorySet == {0, 1, 5, 6, 8, 10, 11, 15, 255}

PaymentHistorySet == {0, 3, 7, 8, 9, 10, 11, 255}

WideInputSet ==
    {Plain(i, d, a, c, p) : i \in IncomeSet, d \in DebtSet, a \in AgeSet,
                            c \in CreditHistorySet, p \in PaymentHistorySet}

\* the state after alice has submitted the encryption of p
AfterSubmit(p) ==
      LET a == Encrypt("alice", p)
      IN  /\ owner = Deployer
          /\ totalEvaluations = 0
          /\ creditSubmissions =
               [u \in Users |-> IF u = "alice"
                                THEN [encryptedIncome |-> a.encryptedIncome,
                                      encryptedDebt |-> a.encryptedDebt,
                                      encryptedAge |-> a.encryptedAge,
                                      encryptedCreditHistory |-> a.encryptedCreditHistory,
                                      encryptedPaymentHistory |-> a.encryptedPaymentHistory,
                                      hasSubmitted |-> TRUE,
                                      submissionTime |-> 1]
                                ELSE EmptyCreditData]
          /\ creditEvaluations = [u \in Users |-> EmptyCreditEvaluation]
          /\ acl = _grantDataAccessPermissions({}, "alice", a.encryptedIncome,
                       a.encryptedDebt, a.encryptedAge, a.encryptedCreditHistory,
                       a.encryptedPaymentHistory)
          /\ events = SetToBag({Event("CreditDataSubmitted", "alice", 1)})
          /\ now = 1
          /\ lastCall = Call("submitCreditData", "alice", "alice", "ok")
          /\ returned = {}
          /\ PipelineIdle
          /\ AppIdle

ScoreInit == \E p \in WideInputSet : AfterSubmit(p) /\ RubricIdle

ScoreNext == evaluateCreditScore("alice", "alice") /\ NoReturn /\ UNCHANGED pvars /\ UNCHANGED avars /\ UNCHANGED rvars

ScoreSpec == ScoreInit /\ [][ScoreNext]_vars

(***************************************************************************)
(* The twelve adjustments of the rubric, one at a time: the k-th select of *)
(* _applyAgeBonus .. _applyIncomeBonus in the order of evaluateCreditScore.*)
(***************************************************************************)
NumAdjustments == 12

Adjustment(k, score, d) ==
    LET income == d.encryptedIncome.v
        debt == d.encryptedDebt.v
        age == d.encryptedAge.v
        creditHistory == d.encryptedCreditHistory.v
        paymentHistory == d.encryptedPaymentHistory.v
    IN  CASE k = 1 -> select(gt8(age, asEuint8(25)), add8(score, asEuint8(1)), score)
          [] k = 2 -> select(gt8(age, asEuint8(40)), add8(score, asEuint8(1)), score)
          [] k = 3 -> select(gt8(creditHistory, asEuint8(5)), add8(score, asEuint8(1)), score)
          [] k = 4 -> select(gt8(creditHistory, asEuint8(10)), add8(score, asEuint8(1)), score)
          [] k = 5 -> select(gt8(paymentHistory, asEuint8(7)), add8(score, asEuint8(1)), score)
          [] k = 6 -> select(eq8(paymentHistory, asEuint8(10)), add8(score, asEuint8(1)), score)
          [] k = 7 -> select(gt32(debt, asEuint32(20000)), sub8(score, asEuint8(1)), score)
          [] k = 8 -> select(gt32(debt, asEuint32(50000)), sub8(score, asEuint8(1)), score)
          [] k = 9 -> select(gt32(debt, income), sub8(score, asEuint8(2)), score)
          [] k = 10 -> select(gt32(debt, mul32(income, asEuint32(2))),
                              sub8(score, asEuint8(1)), score)
          [] k = 11 -> select(gt32(income, asEuint32(5000)), add8(score, asEuint8(1)), score)
          [] k = 12 -> select(gt32(income, asEuint32(10000)), add8(score, asEuint8(1)), score)

\* a record whose penalties outweigh the base score while bonuses apply
ScenarioD == Plain(U32(0, 2000), U32(0, 60000), 45, 1, 3)

OrderInputSet == {ScenarioA, ScenarioB, ScenarioC, ScenarioD}

OrderInit ==
    /\ \E p \in OrderInputSet : AfterSubmit(p)
    /\ accumulator = _calculateBaseScore
    /\ applied = {}

\* one adjustment not applied yet is applied to the running score
applyAdjustment ==
    /\ \E k \in (1..NumAdjustments) \ applied :
          /\ accumulator' = Adjustment(k, accumulator, creditSubmissions["alice"])
          /\ applied' = applied \cup {k}
    /\ UNCHANGED cvars
    /\ UNCHANGED pvars /\ UNCHANGED avars

OrderNext == applyAdjustment \/ ScoreNext

OrderSpec == OrderInit /\ [][OrderNext]_vars

(***************************************************************************)
(* The transaction pipeline: GasEstimator.estimateContractCall,            *)
(* TransactionTracker.trackTransaction, TransactionExecutor                *)
(* .executeTransaction.  A step is what runs between two awaits; what the  *)
(* provider, the wallet and the ledger answer is chosen by the environment.*)
(***************************************************************************)
FALLBACK_GAS == 300000
DEFAULT_GAS == 400000

\* gas amounts estimateGas may answer
GasSet == {21000, 100001}

\* an error object: its code, its message, and the marker substrings the
\* message contains (what String.includes is asked about)
Error(code, message, has) == [code |-> code, message |-> message, has |-> has]

includes(e, sub) == sub \in e.has

ErrUserRejected == Error(4001, "MetaMask Tx Signature: User denied transaction signature.", {})
ErrActionRejected == Error(0, "user rejected action", {"user rejected"})
ErrCancelled == Error(0, "Request cancelled by user", {"cancelled by user"})
ErrRpcUserRejected == Error(-32603, "Internal JSON-RPC error: user rejected", {"user rejected"})
ErrInsufficientFunds == Error(0, "insufficient funds for intrinsic transaction cost", {"insufficient funds"})
ErrReverted == Error(0, "execution reverted", {"execution reverted"})
ErrNetwork == Error(0, "network changed", {})

\* what contract[methodName](...args, txOptions) may throw
SendErrors == {ErrUserRejected, ErrActionRejected, ErrCancelled, ErrRpcUserRejected,
               ErrInsufficientFunds, ErrReverted, ErrNetwork}

\* what provider.waitForTransaction may throw
WaitErrors == {ErrNetwork}

ErrReceiptNotFound == Error(0, "Transaction receipt not found", {})

\* what becomes of a broadcast transaction
Fates == {"success", "reverted", "notfound", "error", "never"}

Status(status, hash, confirmations, error) ==
    [status |-> status, hash |-> hash, confirmations |-> confirmations, error |-> error]

\* the condition under which the retry loop does not retry (lines 273-275)
IsUserCancel(e) ==
    e.code = 4001 \/ includes(e, "user rejected") \/ includes(e, "cancelled by user")

\* the message executeTransaction reports and throws (lines 286-302)
UserMessage(e) ==
    IF e.code = 4001 THEN "Transaction cancelled by user"
    ELSE IF e.code = -32603
    THEN "Transaction failed - insufficient funds or contract error"
    ELSE IF includes(e, "insufficient funds") THEN "Insufficient ETH balance for gas fees"
    ELSE IF includes(e, "user rejected") THEN "Transaction rejected by user"
    ELSE IF includes(e, "execution reverted")
    THEN "Contract execution failed - check your data"
    ELSE IF includes(e, "missing revert data")
    THEN "Contract call failed - please check your input data and try again"
    ELSE IF includes(e, "CALL_EXCEPTION")
    THEN "Contract call exception - please verify your data is correct"
    ELSE e.message

Buffered_None(gasLimit) == gasLimit

\* the 50% buffer of line 131, in BigInt arithmetic
Buffered(gasLimit) == (gasLimit * 150) \div 100

\* the gas estimates estimateContractCall can return
EstimateOutcomes ==
    \* estimateGas answers
    {[path |-> "dynamic", raw |-> g, gasLimit |-> Buffered(g), simFailed |-> FALSE] : g \in GasSet}
    \* estimateGas fails, staticCall succeeds
    \cup {[path |-> "fallback", raw |-> FALLBACK_GAS, gasLimit |-> Buffered(FALLBACK_GAS),
           simFailed |-> FALSE]}
    \* estimateGas fails and staticCall fails: the Error thrown at line 126 is
    \* caught at line 162, which returns the defaults
    \cup {[path |-> "default", raw |-> DEFAULT_GAS, gasLimit |-> DEFAULT_GAS,
           simFailed |-> TRUE]}
    \* getFeeData fails: caught at line 162 as well
    \cup {[path |-> "default", raw |-> DEFAULT_GAS, gasLimit |-> DEFAULT_GAS,
           simFailed |-> FALSE]}

\* a call of executeTransaction has just been made, with some options
PipelineStart ==
    /\ pc = "estimate"
    /\ attempt = 0
    /\ \E c \in 1..MaxConfirmations : \E r \in 0..MaxRetries :
          options = [confirmations |-> c, retries |-> r]
    /\ estimate = NoEstimate
    /\ chain = "none"
    /\ depth = 0
    /\ lastError = NoError
    /\ statusLog = << >>
    /\ txCount = 0
    /\ outcome = NoResult

PipeInit == ContractInit /\ PipelineStart /\ AppIdle /\ RubricIdle

\* lines 216-223: estimate the gas, then report 'pending'
estimateContractCall ==
    /\ pc = "estimate"
    /\ \E e \in EstimateOutcomes : estimate' = e
    /\ statusLog' = Append(statusLog, Status("pending", 0, 0, ""))
    /\ pc' = "send"
    /\ UNCHANGED <<attempt, options, chain, depth, lastError, txCount, outcome>>
    /\ UNCHANGED cvars /\ UNCHANGED rvars

\* the catch block of the retry loop (lines 268-282) and, when the loop is
\* left, the classification, the final 'failed' status and the throw (lines
\* 285-310); log is the status log as the attempt leaves it
Catch(e, log) ==
    /\ lastError' = e
    /\ IF IsUserCancel(e) \/ attempt = options.retries
       THEN /\ statusLog' = Append(log, Status("failed", 0, 0, UserMessage(e)))
            /\ outcome' = [kind |-> "error", hash |-> 0, status |-> 0,
                           message |-> UserMessage(e)]
            /\ pc' = "thrown"
            /\ attempt' = attempt
       ELSE /\ statusLog' = log
            /\ outcome' = outcome
            /\ pc' = "delay"
            /\ attempt' = attempt + 1

\* line 247: the wallet signs and broadcasts, or the call throws; on success
\* trackTransaction starts and reports 'pending' with the hash (lines 38-42)
sendTransaction ==
    /\ pc = "send"
    /\ \/ /\ txCount' = txCount + 1
          /\ \E f \in Fates : chain' = f
          /\ statusLog' = Append(statusLog, Status("pending", txCount + 1, 0, ""))
          /\ depth' = 0
          /\ pc' = "wait"
          /\ UNCHANGED <<attempt, lastError, outcome>>
       \/ /\ \E e \in SendErrors : Catch(e, statusLog)
          /\ UNCHANGED <<txCount, chain, depth>>
    /\ UNCHANGED <<options, estimate>>
    /\ UNCHANGED cvars /\ UNCHANGED rvars

Receipt_OfFirstAttempt(hash, st) ==
    [kind |-> "receipt", hash |-> 1, status |-> st, message |-> ""]

\* the receipt of transaction hash that trackTransaction returns (line 69) and
\* executeTransaction hands on (line 266)
Receipt(hash, st) ==
    [kind |-> "receipt", hash |-> hash, status |-> st, message |-> ""]

\* lines 44-82: provider.waitForTransaction(txHash, 1) answers
trackTransaction ==
    /\ pc = "wait"
    /\ \/ /\ chain \in {"success", "reverted"}
          /\ LET st == IF chain = "success" THEN 1 ELSE 0
             IN  /\ statusLog' = Append(statusLog,
                        Status(IF st = 1 THEN "confirmed" ELSE "failed", txCount, 1, ""))
                 /\ outcome' = Receipt(txCount, st)
          \* the wait of line 46 ends once the transaction has 1 confirmation
          /\ \E c \in 1..MaxConfirmations : depth' = c
          /\ pc' = "returned"
          /\ UNCHANGED <<attempt, lastError>>
       \/ /\ chain = "notfound"
          /\ Catch(ErrReceiptNotFound,
                   Append(statusLog, Status("failed", txCount, 0, ErrReceiptNotFound.message)))
          /\ UNCHANGED depth
       \/ /\ chain = "error"
          /\ \E e \in WaitErrors :
                Catch(e, Append(statusLog, Status("failed", txCount, 0, e.message)))
          /\ UNCHANGED depth
    /\ UNCHANGED <<options, estimate, chain, txCount>>
    /\ UNCHANGED cvars /\ UNCHANGED rvars

\* line 210: the fixed delay before a retry
retryDelay ==
    /\ pc = "delay"
    /\ pc' = "estimate"
    /\ UNCHANGED <<attempt, options, estimate, chain, depth, lastError, statusLog, txCount,
                   outcome>>
    /\ UNCHANGED cvars /\ UNCHANGED rvars

\* the pipeline driven by a caller whose onStatusUpdate leaves the App alone
PipeNext ==
    \/ estimateContractCall /\ UNCHANGED avars
    \/ sendTransaction /\ UNCHANGED avars
    \/ trackTransaction /\ UNCHANGED avars
    \/ retryDelay /\ UNCHANGED avars

PipeSpec == PipeInit /\ [][PipeNext]_vars

\* every await of the call is eventually answered when it can be answered; the
\* wait for a transaction that is never included has no answer
PipeFairSpec == PipeSpec /\ WF_vars(PipeNext)

(***************************************************************************)
(* The client: App.submitCreditData, from the form's strings to the call   *)
(* of executeTransaction and back.  A string is the sequence of its        *)
(* characters.                                                             *)
(***************************************************************************)
Digits == <<"0", "1", "2", "3", "4", "5", "6", "7", "8", "9">>

IsDigit(c) == \E i \in 1..10 : Digits[i] = c

Digit(c) == (CHOOSE i \in 1..10 : Digits[i] = c) - 1

\* String.prototype.trim
RECURSIVE trimStart(_)
trimStart(str) ==
    IF str # << >> /\ Head(str) = " " THEN trimStart(Tail(str)) ELSE str

RECURSIVE trimEnd(_)
trimEnd(str) ==
    IF str # << >> /\ str[Len(str)] = " " THEN trimEnd(SubSeq(str, 1, Len(str) - 1)) ELSE str

trim(str) == trimEnd(trimStart(str))

\* the longest prefix of str made of decimal digits
RECURSIVE LeadingDigits(_)
LeadingDigits(str) ==
    IF str = << >> \/ ~IsDigit(Head(str)) THEN << >>
    ELSE <<Head(str)>> \o LeadingDigits(Tail(str))

\* the number a sequence of decimal digits writes
RECURSIVE DecimalValue(_)
DecimalValue(ds) ==
    IF ds = << >> THEN 0
    ELSE DecimalValue(SubSeq(ds, 1, Len(ds) - 1)) * 10 + Digit(ds[Len(ds)])

NaN == [nan |-> TRUE, n |-> 0]

Number(n) == [nan |-> FALSE, n |-> n]

HasSign(str) == str # << >> /\ Head(str) \in {"-", "+"}

Unsigned(str) == IF HasSign(str) THEN Tail(str) ELSE str

\* parseInt(str) in radix 10: an optional sign and the leading digits; what
\* follows the digits is ignored; NaN when there is no digit
parseInt(str) ==
    LET t == trimStart(str)
        ds == LeadingDigits(Unsigned(t))
    IN  IF ds = << >> THEN NaN
        ELSE Number(IF HasSign(t) /\ Head(t) = "-" THEN -DecimalValue(ds) ELSE DecimalValue(ds))

isNaN(x) == x.nan

\* what the <input type="number"> fields and the preset buttons can put into
\* the form (CreditDataForm.tsx 49-122): the empty string or a decimal number
IncomeInputs == {<< >>, <<"5", "0", "0", "0">>, <<"0">>, <<"1", "e", "3">>}
DebtInputs == {<< >>, <<"1", "0", "0", "0">>, <<"-", "5">>, <<"6", "0", "0", "0", "0", "0">>}
AgeInputs == {<< >>, <<"3", "0">>, <<"1", "7">>, <<"1", "0", "0", ".", "5">>, <<"2", "0", "e", "1">>}
CreditHistoryInputs == {<< >>, <<"5">>, <<"-", "1">>, <<"3", "0", "0">>}
PaymentHistoryInputs == {<< >>, <<"7">>, <<"0">>, <<"1", "0", ".", "9">>, <<".", "5">>}

FieldInputs ==
    [income |-> IncomeInputs, debt |-> DebtInputs, age |-> AgeInputs,
     creditHistory |-> CreditHistoryInputs, paymentHistory |-> PaymentHistoryInputs]

Fields == {"income", "debt", "age", "creditHistory", "paymentHistory"}

Info(text) == [text |-> text, type |-> "info"]

Failure(text) == [text |-> text, type |-> "error"]

\* the pipeline variables are left alone
NoCall == UNCHANGED pvars

\* CreditDataForm.handleInputChange and App.setPreset; the fields are disabled
\* while loading
handleInputChange ==
    /\ ~loading
    /\ \E field \in Fields : \E value \in FieldInputs[field] :
          creditData' = [creditData EXCEPT ![field] = value]
    /\ UNCHANGED <<appMessage, loading, plain>>
    /\ NoCall
    /\ UNCHANGED cvars /\ UNCHANGED rvars

\* the message the validation of lines 472-524 rejects the form with, "" when
\* it passes
Validate(incomeStr, debtStr, ageStr, creditHistoryStr, paymentHistoryStr) ==
    LET income == parseInt(incomeStr)
        debt == parseInt(debtStr)
        age == parseInt(ageStr)
        creditHistory == parseInt(creditHistoryStr)
        paymentHistory == parseInt(paymentHistoryStr)
    IN  IF \/ incomeStr = << >> \/ debtStr = << >> \/ ageStr = << >>
           \/ creditHistoryStr = << >> \/ paymentHistoryStr = << >>
        THEN "Please fill in all fields!"
        ELSE IF \/ isNaN(income) \/ isNaN(debt) \/ isNaN(age)
                \/ isNaN(creditHistory) \/ isNaN(paymentHistory)
        THEN "Please enter valid numbers for all fields!"
        ELSE IF age.n < 18 \/ age.n > 100 THEN "Age must be between 18 and 100!"
        ELSE IF paymentHistory.n < 1 \/ paymentHistory.n > 10
        THEN "Payment history score must be between 1 and 10!"
        ELSE IF income.n <= 0 THEN "Income must be greater than 0!"
        ELSE IF debt.n < 0 THEN "Debt cannot be negative!"
        ELSE IF creditHistory.n < 0 THEN "Credit history cannot be negative!"
        ELSE IF income.n > 10000000
        THEN "Income seems unusually high. Please verify your input."
        ELSE IF debt.n > income.n * 100
        THEN "Debt amount seems unusually high compared to income."
        ELSE ""

\* lines 459-542: the click on Submit, up to the first await
App_submitCreditData ==
    /\ ~loading
    /\ pc = "idle"
    /\ \E connected \in BOOLEAN : \E balanceIsZero \in BOOLEAN :
          LET incomeStr == trim(creditData.income)
              debtStr == trim(creditData.debt)
              ageStr == trim(creditData.age)
              creditHistoryStr == trim(creditData.creditHistory)
              paymentHistoryStr == trim(creditData.paymentHistory)
              rejection == Validate(incomeStr, debtStr, ageStr, creditHistoryStr,
                                    paymentHistoryStr)
          IN  IF ~connected
              THEN /\ appMessage' = Failure("Please connect your wallet first!")
                   /\ UNCHANGED <<loading, plain>>
              ELSE IF rejection # ""
              THEN /\ appMessage' = Failure(rejection)
                   /\ UNCHANGED <<loading, plain>>
              ELSE IF balanceIsZero
              THEN /\ appMessage' = Failure("Insufficient ETH balance to pay for gas fees.")
                   /\ UNCHANGED <<loading, plain>>
              ELSE /\ loading' = TRUE
                   /\ appMessage' = Info("Setting up homomorphic encryption...")
                   /\ plain' = [income |-> parseInt(incomeStr).n,
                                debt |-> parseInt(debtStr).n,
                                age |-> parseInt(ageStr).n,
                                creditHistory |-> parseInt(creditHistoryStr).n,
                                paymentHistory |-> parseInt(paymentHistoryStr).n]
    /\ UNCHANGED creditData
    /\ NoCall
    /\ UNCHANGED cvars /\ UNCHANGED rvars

\* lines 542-583: initializeFHE and encryptCreditData answer; on success
\* executeTransaction is called with { retries: 2, confirmations: 1 }
App_encrypt ==
    /\ loading
    /\ pc = "idle"
    /\ \/ /\ appMessage' = Info("Preparing encrypted transaction...")
          /\ pc' = "estimate"
          /\ attempt' = 0
          /\ options' = [confirmations |-> 1, retries |-> 2]
          /\ estimate' = NoEstimate
          /\ chain' = "none"
          /\ depth' = 0
          /\ lastError' = NoError
          /\ statusLog' = << >>
          /\ txCount' = 0
          /\ outcome' = NoResult
          /\ UNCHANGED <<loading, plain>>
       \/ /\ appMessage' = Failure("Encryption failed")
          /\ loading' = FALSE
          /\ plain' = NoPlain
          /\ NoCall
    /\ UNCHANGED creditData
    /\ UNCHANGED cvars /\ UNCHANGED rvars

\* lines 568-581: what the App's onStatusUpdate shows for a status
StatusMessage(st) ==
    IF st.status = "pending" THEN Info("Transaction sent! Please confirm in MetaMask...")
    ELSE IF st.status = "confirmed"
    THEN Info("Encrypted credit data successfully submitted to blockchain!")
    ELSE Failure(IF st.error = "" THEN "Transaction failed" ELSE st.error)

\* a step of the pipeline under the App: the last status it delivers, if any,
\* is shown
OnStatusUpdate ==
    /\ appMessage' = IF Len(statusLog') > Len(statusLog)
                     THEN StatusMessage(statusLog'[Len(statusLog')])
                     ELSE appMessage
    /\ UNCHANGED <<creditData, loading, plain>>

\* lines 585-612: executeTransaction has returned or thrown
App_finish ==
    /\ loading
    /\ pc \in {"returned", "thrown"}
    /\ IF pc = "returned"
       THEN creditData' = EmptyForm /\ UNCHANGED appMessage
       ELSE /\ appMessage' = Failure(outcome.message)
            /\ UNCHANGED creditData
    /\ loading' = FALSE
    /\ plain' = NoPlain
    \* the call is over and its locals are gone
    /\ pc' = "idle"
    /\ attempt' = 0
    /\ options' = [confirmations |-> 1, retries |-> 1]
    /\ estimate' = NoEstimate
    /\ chain' = "none"
    /\ depth' = 0
    /\ lastError' = NoError
    /\ statusLog' = << >>
    /\ txCount' = 0
    /\ outcome' = NoResult
    /\ UNCHANGED cvars /\ UNCHANGED rvars

ClientNext ==
    \/ handleInputChange
    \/ App_submitCreditData
    \/ App_encrypt
    \/ estimateContractCall /\ OnStatusUpdate
    \/ sendTransaction /\ OnStatusUpdate
    \/ trackTransaction /\ OnStatusUpdate
    \/ retryDelay /\ OnStatusUpdate
    \/ App_finish

ClientSpec == Init /\ [][ClientNext]_vars

(***************************************************************************)
(* The rubric of the specification, in unbounded integers                  *)
(***************************************************************************)
\* a > b for a 32-bit a and an unbounded b = [hi, lo] whose hi may exceed a limb
GtWide(a, b) == (a.hi > b.hi) \/ (a.hi = b.hi /\ a.lo > b.lo)

\* 2 x income without any wrap
TwiceWide(x) == [hi |-> 2 * x.hi + ((2 * x.lo) \div Limb), lo |-> (2 * x.lo) % Limb]

Delta(c, d) == IF c THEN d ELSE 0

RubricSum(income, debt, age, creditHistory, paymentHistory) ==
    3 + Delta(age > 25, 1) + Delta(age > 40, 1)
      + Delta(creditHistory > 5, 1) + Delta(creditHistory > 10, 1)
      + Delta(paymentHistory > 7, 1) + Delta(paymentHistory = 10, 1)
      + Delta(GtWide(debt, asEuint32(20000)), -1)
      + Delta(GtWide(debt, asEuint32(50000)), -1)
      + Delta(GtWide(debt, income), -2)
      + Delta(GtWide(debt, TwiceWide(income)), -1)
      + Delta(GtWide(income, asEuint32(5000)), 1)
      + Delta(GtWide(income, asEuint32(10000)), 1)

Clamp(x, lo, hi) == IF x < lo THEN lo ELSE IF x > hi THEN hi ELSE x

\* the unclamped rubric sum of the record stored for u
S(u) ==
    LET d == creditSubmissions[u]
    IN  RubricSum(d.encryptedIncome.v, d.encryptedDebt.v, d.encryptedAge.v,
                  d.encryptedCreditHistory.v, d.encryptedPaymentHistory.v)

StoredScore(u) == creditEvaluations[u].encryptedScore.v

StoredApproved(u) == creditEvaluations[u].isApproved.v

Evaluated(u) == creditEvaluations[u].isEvaluated

Submitted(u) == creditSubmissions[u].hasSubmitted

(***************************************************************************)
(* Properties of the scoring rubric (checked under ScoreSpec)              *)
(***************************************************************************)
\* C1: for every input, the score stored by evaluateCreditScore equals
\* clamp(S, 1, 5), S being the rubric sum computed in unbounded integers:
\* the 8-bit accumulator never wraps in a way that changes the result.
C1_ScoreIsClampedSum ==
    \A u \in Users : Evaluated(u) => StoredScore(u) = Clamp(S(u), 1, 5)

\* C2: for every input whose unclamped rubric sum is below 1, evaluate
\* stores score = 1 and approved = false.
C2_LowSumGivesOne ==
    \A u \in Users :
        (Evaluated(u) /\ S(u) < 1) => (StoredScore(u) = 1 /\ StoredApproved(u) = FALSE)

\* C3: for every input, the stored score lies in [1,5] and the stored
\* approval flag is true exactly when the stored score is at least 3.
C3_ScoreInRangeAndApproval ==
    \A u \in Users :
        Evaluated(u) => /\ StoredScore(u) \in 1..5
                        /\ StoredApproved(u) = (StoredScore(u) >= 3)

\* C3 witness: an evaluation whose accumulator wrapped below zero (rubric sum
\* negative) has been stored, and one can see the score it was clamped to
C3_Witness ==
    /\ Evaluated("alice") /\ S("alice") < 0
    /\ StoredScore("alice") = 5 /\ StoredApproved("alice") = TRUE

\* C4: for every input whose unclamped rubric sum S is at least 0, the stored
\* score equals clamp(S, 1, 5), also when the running 8-bit accumulator
\* passes below zero between the debt penalties and the income bonuses.
C4_NonNegativeSumIsClamped ==
    \A u \in Users :
        (Evaluated(u) /\ S(u) >= 0) => StoredScore(u) = Clamp(S(u), 1, 5)

(***************************************************************************)
(* Properties of the submission / evaluation state machine (under Spec)    *)
(***************************************************************************)
\* C5: submitCreditData is one-shot: once an address has submitted, every
\* later submitCreditData by it, whatever the five arguments, reverts with
\* "Data already submitted" and stores nothing.
C5_SubmitIsOneShot ==
    [][\A s \in Users :
          Submitted(s) =>
            \A a \in SubmitArgs(s) :
              submitCreditData(s, a)
                => /\ lastCall' = Call("submitCreditData", s, s, "Data already submitted")
                   /\ creditSubmissions' = creditSubmissions
                   /\ acl' = acl
                   /\ events' = events]_vars

\* C5 witness: alice, who has submitted, has just had a second submit rejected
C5_Witness ==
    /\ lastCall = Call("submitCreditData", "alice", "alice", "Data already submitted")
    /\ Submitted("alice")

\* C6: evaluateCreditScore(u) for an address u that has never submitted fails
\* with "No credit data submitted" for every caller allowed to evaluate u (u
\* itself or the owner), whatever the caller's own submission state is, and
\* no evaluation is created for u.
C6_EvaluateUnsubmittedFails ==
    [][\A s \in Users : \A u \in Users :
          (~Submitted(u) /\ (s = u \/ s = owner) /\ evaluateCreditScore(s, u))
            => /\ lastCall' = Call("evaluateCreditScore", s, u, "No credit data submitted")
               /\ ~creditEvaluations'[u].isEvaluated]_vars

\* C7: whenever u has submitted and is not yet evaluated, evaluateCreditScore(u)
\* succeeds both when called by u and when called by the owner, for every
\* state of the owner's own record.
C7_EvaluateSubmittedSucceeds ==
    [][\A s \in Users : \A u \in Users :
          (Submitted(u) /\ ~Evaluated(u) /\ (s = u \/ s = owner)
             /\ evaluateCreditScore(s, u))
            => /\ lastCall' = Call("evaluateCreditScore", s, u, "ok")
               /\ creditEvaluations'[u].isEvaluated]_vars

\* C8: in every reachable state, an address that has an evaluation
\* (isEvaluated) also has a credit record (hasSubmitted).
C8_EvaluationImpliesRecord ==
    \A u \in Users : Evaluated(u) => Submitted(u)

\* C9: after a successful evaluateCreditScore(u), every later
\* evaluateCreditScore(u) by u or by the owner fails with "Already evaluated",
\* does not increment totalEvaluations and emits no second CreditEvaluated.
C9_SecondEvaluateAlreadyEvaluated ==
    [][\A s \in Users : \A u \in Users :
          (Evaluated(u) /\ (s = u \/ s = owner) /\ evaluateCreditScore(s, u))
            => /\ lastCall' = Call("evaluateCreditScore", s, u, "Already evaluated")
               /\ totalEvaluations' = totalEvaluations
               /\ events' = events]_vars

C11_ReadsAreRestricted ==
    [][\A s \in Callers : \A u \in Users :
          /\ getEncryptedCreditScore(s, u)
               => IF s # u /\ s # owner
                  THEN /\ lastCall' = Call("getEncryptedCreditScore", s, u, "Not authorized")
                       /\ returned' = {}
                  ELSE Evaluated(u)
                         => /\ lastCall' = Call("getEncryptedCreditScore", s, u, "ok")
                            /\ returned' = {creditEvaluations[u].encryptedScore.h}
          /\ getEncryptedLoanApproval(s, u)
               => IF s # u /\ s # owner
                  THEN /\ lastCall' = Call("getEncryptedLoanApproval", s, u, "Not authorized")
                       /\ returned' = {}
                  ELSE Evaluated(u)
                         => /\ lastCall' = Call("getEncryptedLoanApproval", s, u, "ok")
                            /\ returned' = {creditEvaluations[u].isApproved.h}]_vars

\* C11 witness: alice is evaluated and bob's attempt to read her score has
\* just been rejected
C11_Witness ==
    /\ Evaluated("alice")
    /\ lastCall = Call("getEncryptedCreditScore", Outsider, "alice", "Not authorized")
    /\ returned = {}

\* C12: every read the contract exposes hands a stored ciphertext handle only
\* to a caller that is in the permitted set of that handle at that moment,
\* the generated accessors of the public mappings included.
C12_ReadsRespectPermittedSets ==
    \A h \in returned : h # NoHandle => isAllowed(h, lastCall.sender)

\* C13: after a successful evaluateCreditScore(u), both u and the owner are
\* in the permitted set of the score handle and of the approval handle.
C13_ResultGrantedToUserAndOwner ==
    \A u \in Users :
        Evaluated(u) =>
            \A h \in EvaluationHandles(creditEvaluations[u]) :
                isAllowed(h, u) /\ isAllowed(h, owner)

\* C14: a successful submitCreditData by u puts u and the contract itself in
\* the permitted set of each of the five submitted handles, and adds no
\* other address to any permitted set.
C14_SubmitGrants ==
    [][\A s \in Users :
          ~Submitted(s) =>
            \A a \in SubmitArgs(s) :
              submitCreditData(s, a)
                => /\ \A h \in RecordHandles(a) :
                        <<h, s>> \in acl' /\ <<h, This>> \in acl'
                   /\ (acl' \ acl) \subseteq (RecordHandles(a) \X {s, This})]_vars

\* C14 witness: alice has just submitted her own encryptions and is in the
\* permitted set of each of them
C14_Witness ==
    /\ lastCall = Call("submitCreditData", "alice", "alice", "ok")
    /\ \A h \in RecordHandles(creditSubmissions["alice"]) :
          h.by = "alice" /\ isAllowed(h, "alice") /\ isAllowed(h, This)

\* C15: stored records are write-once: once an address has a credit record,
\* no later operation changes any of its fields, flag or timestamp; once it
\* has an evaluation, no later operation changes its score, approval flag,
\* evaluated flag or timestamp.
C15_RecordsAreWriteOnce ==
    [][\A u \in Users :
          /\ Submitted(u) => creditSubmissions'[u] = creditSubmissions[u]
          /\ Evaluated(u) => creditEvaluations'[u] = creditEvaluations[u]]_vars

\* C15 witness: alice has a record and an evaluation made at time 1, time has
\* advanced, and a further evaluation of her has been attempted
C15_Witness ==
    /\ Submitted("alice") /\ Evaluated("alice")
    /\ creditEvaluations["alice"].evaluationTime = 1
    /\ now > 1
    /\ lastCall = Call("evaluateCreditScore", "alice", "alice", "Already evaluated")

\* number of events with a given name emitted for a user
RECURSIVE CountIn(_, _)
CountIn(es, b) ==
    IF es = {} THEN 0
    ELSE LET e == CHOOSE x \in es : TRUE
         IN  CopiesIn(e, b) + CountIn(es \ {e}, b)

Emitted(name, user) ==
    CountIn({e \in BagToSet(events) : e.name = name /\ e.user = user}, events)

\* C16: of the conflicting invocations for one address (submits by u;
\* evaluateCreditScore(u) by u and by the owner on a submitted u) exactly one
\* succeeds and every other one fails with the corresponding "already"
\* error; totalEvaluations rises by exactly one per evaluated address.
C16_ConflictingCallsSerialize ==
    /\ \A u \in Users :
          /\ Emitted("CreditDataSubmitted", u) <= 1
          /\ Emitted("CreditEvaluated", u) <= 1
    /\ totalEvaluations = Cardinality({u \in Users : Evaluated(u)})
    /\ lastCall.op = "submitCreditData"
          => lastCall.result \in {"ok", "Data already submitted"}
    /\ (lastCall.op = "evaluateCreditScore"
          /\ (lastCall.sender = lastCall.user \/ lastCall.sender = owner)
          /\ Submitted(lastCall.user))
          => lastCall.result \in {"ok", "Already evaluated"}

\* the storage, the permitted sets and the emitted events
ledger == <<owner, totalEvaluations, creditSubmissions, creditEvaluations, acl, events>>

\* C17: every rejected submitCreditData, evaluateCreditScore or
\* requestLoanApproval leaves the whole ledger unchanged: a call that reports
\* an error changes nothing, and a call made where the operation is not
\* allowed (second submit, caller of evaluate without data, evaluate of an
\* evaluated address, request without evaluation) changes nothing.
C17_RejectedCallsChangeNothing ==
    [][/\ \A s \in Users : \A a \in SubmitArgs(s) :
            (submitCreditData(s, a) /\ (Submitted(s) \/ lastCall'.result # "ok"))
              => UNCHANGED ledger
       /\ \A s \in Users : \A u \in Users :
            (evaluateCreditScore(s, u)
               /\ (~Submitted(s) \/ Evaluated(u) \/ lastCall'.result # "ok"))
              => UNCHANGED ledger
       /\ \A s \in Users :
            (requestLoanApproval(s) /\ (~Evaluated(s) \/ lastCall'.result # "ok"))
              => UNCHANGED ledger]_vars

\* C17 witness: an evaluation by a caller that may not evaluate the user has
\* just been rejected
C17_Witness ==
    /\ lastCall = Call("evaluateCreditScore", "alice", "admin", "Not authorized to evaluate")
    /\ Submitted("alice")

(***************************************************************************)
(* Properties of the transaction pipeline (checked under PipeSpec)         *)
(***************************************************************************)

\* C18: when dynamic estimation fails and the dry-run simulation fails too,
\* the call aborts at once: the step that finds the simulation failing ends
\* the call with an error, submits no transaction and starts no further
\* attempt.
C18_SimulationFailureAborts ==
    [][(pc = "estimate" /\ estimate'.simFailed)
        => /\ pc' = "thrown"
           /\ outcome'.kind = "error"
           /\ txCount' = txCount
           /\ attempt' = attempt]_vars

\* C19: a transaction that is included but rejected (receipt status not
\* success) never makes the call return normally.
C19_RejectedReceiptIsFailure ==
    (pc = "returned") => (chain # "reverted" /\ outcome.status = 1)

\* an attempt has just failed: the submission threw, the wait threw or gave no
\* receipt, or the receipt says the ledger rejected the transaction
AttemptFails ==
    /\ pc \in {"send", "wait"}
    /\ pc' \notin {pc, "wait"}
    /\ ~(pc' = "returned" /\ outcome'.status = 1)

\* the failure of the attempt is a user cancellation
FailsByUserCancel == pc' \in {"thrown", "delay"} /\ IsUserCancel(lastError')

\* C20: the attempts of one call never exceed retries + 1, and a failed
\* attempt that is neither a user cancellation nor a definite simulation
\* failure is followed by a further attempt as long as fewer than retries
\* retries have been made.
C20_RetryPolicy ==
    [][/\ attempt' <= options'.retries
       /\ (AttemptFails /\ ~FailsByUserCancel /\ ~estimate.simFailed
           /\ attempt < options.retries)
          => (pc' = "delay" /\ attempt' = attempt + 1)]_vars

\* the category of the specification a reported message stands for
Category(message) ==
    IF message \in {"Transaction cancelled by user", "Transaction rejected by user"}
    THEN "UserCancelled"
    ELSE IF message = "Insufficient ETH balance for gas fees" THEN "InsufficientFunds"
    ELSE IF message = "Contract execution failed - check your data" THEN "ExecutionReverted"
    ELSE "Unknown"

\* an attempt has just ended with an error the retry loop takes for a user
\* cancellation
AttemptCancelled ==
    /\ pc \in {"send", "wait"}
    /\ pc' \in {"thrown", "delay"}
    /\ IsUserCancel(lastError')

\* C21: a user cancellation in any attempt ends the call: no further attempt
\* is started, whatever retries is, and the call fails with the UserCancelled
\* classification.
C21_UserCancelEndsCall ==
    [][AttemptCancelled
       => /\ pc' = "thrown"
          /\ attempt' = attempt
          /\ outcome'.kind = "error"
          /\ Category(outcome'.message) = "UserCancelled"]_vars

\* the last status delivered to onStatusUpdate
LastStatus == statusLog[Len(statusLog)]

\* C22: when earlier attempts failed with retryable errors and the
\* transaction of the present attempt is included with success, the call
\* returns the receipt of that very transaction and reports it confirmed;
\* it does not fail: the failure report that ends a failed call (the one
\* without a transaction hash) is never made.
C22_SuccessAfterRetriesReturnsReceipt ==
    [][(pc = "wait" /\ chain = "success" /\ pc' # "wait")
       => /\ pc' = "returned"
          /\ outcome' = [kind |-> "receipt", hash |-> txCount, status |-> 1, message |-> ""]
          /\ statusLog' = Append(statusLog, Status("confirmed", txCount, 1, ""))
          /\ \A i \in 1..Len(statusLog') :
                statusLog'[i].status = "failed" => statusLog'[i].hash # 0]_vars

\* C22 witness: the call has returned the receipt of a retry, after an
\* earlier attempt failed
C22_Witness ==
    /\ pc = "returned"
    /\ attempt > 0
    /\ lastError # NoError
    /\ outcome = Receipt(txCount, 1)

\* the call has just ended on a failed attempt
CallEndsOnFailure == AttemptFails /\ pc' # "delay"

\* C23: when every attempt of a call has failed, the error the call fails
\* with, and the error of the final failed status, is the classification of
\* the last attempt's error.
C23_LastErrorIsSurfaced ==
    [][CallEndsOnFailure
       => /\ pc' = "thrown"
          /\ outcome' = [kind |-> "error", hash |-> 0, status |-> 0,
                         message |-> UserMessage(lastError')]
          /\ statusLog'[Len(statusLog')] = Status("failed", 0, 0, UserMessage(lastError'))]_vars

\* the statuses a step delivers to onStatusUpdate
Delivered == {statusLog'[i] : i \in (Len(statusLog) + 1)..Len(statusLog')}

\* C24: no failed status is delivered while the call still has a further
\* attempt to make: a step that delivers one ends the call.
C24_NoFailedStatusBeforeLastAttempt ==
    [][(\E st \in Delivered : st.status = "failed") => pc' \in {"thrown", "returned"}]_vars

Terminal(st) == st.status \in {"confirmed", "failed"}

\* C25: over the statuses delivered in one call the status only advances: no
\* pending or confirming status is delivered after a confirmed or failed one.
C25_StatusOnlyAdvances ==
    \A i \in 1..Len(statusLog) : \A j \in 1..Len(statusLog) :
        (i < j /\ Terminal(statusLog[i])) => Terminal(statusLog[j])

\* C26: confirmed is reported, and the call returns, only after the
\* transaction has reached options.confirmations confirmations.
C26_ConfirmedAtRequiredConfirmations ==
    /\ \A i \in 1..Len(statusLog) :
          statusLog[i].status = "confirmed" => statusLog[i].confirmations >= options.confirmations
    /\ (pc = "returned" /\ outcome.status = 1) => depth >= options.confirmations

\* C27: every call eventually terminates, by returning a receipt or by
\* failing, also when a submitted transaction is never included.
C27_CallTerminates == <>(pc \in {"returned", "thrown"})

\* C28: once an attempt of the call has obtained a transaction hash, the
\* final status delivered to onStatusUpdate carries a transaction hash.
C28_FinalStatusCarriesHash ==
    (pc \in {"returned", "thrown"} /\ txCount > 0) => LastStatus.hash # 0

\* txOptions.gasLimit of the transaction that has been sent (line 227)
SentGasLimit == estimate.gasLimit

\* 1.5 times an integer amount, rounded down
OneAndAHalf(n) == (3 * n) \div 2

\* C29: the gas limit sent with a transaction is 1.5 times (rounded down) the
\* estimate that was used, whichever of the three it is.
C29_GasLimitIsBufferedEstimate ==
    pc = "wait" => SentGasLimit = OneAndAHalf(estimate.raw)

\* C29 as the code has it: the gas limit sent is 1.5 times (rounded down) the
\* dynamic estimate or the fixed fallback, and is the default, unmultiplied,
\* when estimation fails altogether.
C29_GasLimitIsBufferedUnlessDefault ==
    pc = "wait" =>
        /\ estimate.path \in {"dynamic", "fallback", "default"}
        /\ estimate.path = "dynamic"
              => (estimate.raw \in GasSet /\ SentGasLimit = OneAndAHalf(estimate.raw))
        /\ estimate.path = "fallback" => SentGasLimit = OneAndAHalf(FALLBACK_GAS)
        /\ estimate.path = "default" => SentGasLimit = DEFAULT_GAS

\* C29 witness: a transaction has been sent with the buffer of an odd dynamic
\* estimate, in a retry
C29_Witness ==
    /\ pc = "wait"
    /\ estimate.path = "dynamic"
    /\ estimate.raw % 2 = 1
    /\ attempt > 0

(***************************************************************************)
(* Properties of the client-side validation (checked under ClientSpec)     *)
(***************************************************************************)
RECURSIVE TenTo(_)
TenTo(k) == IF k = 0 THEN 1 ELSE 10 * TenTo(k - 1)

\* the number a string writes, in tenths: digits, an optional fraction of one
\* digit, an optional exponent; ok is FALSE when the string writes no number
Denotes(str) ==
    LET body == Unsigned(str)
        whole == LeadingDigits(body)
        rest1 == SubSeq(body, Len(whole) + 1, Len(body))
        dot == rest1 # << >> /\ Head(rest1) = "."
        frac == IF dot THEN LeadingDigits(Tail(rest1)) ELSE << >>
        rest2 == IF dot THEN SubSeq(rest1, Len(frac) + 2, Len(rest1)) ELSE rest1
        e == rest2 # << >> /\ Head(rest2) = "e"
        exp == IF e THEN LeadingDigits(Tail(rest2)) ELSE << >>
        rest3 == IF e THEN SubSeq(rest2, Len(exp) + 2, Len(rest2)) ELSE rest2
        magnitude == (DecimalValue(whole) * 10 + DecimalValue(frac)) * TenTo(DecimalValue(exp))
    IN  [ok |-> /\ rest3 = << >>
                /\ whole # << >> \/ frac # << >>
                /\ dot => Len(frac) = 1
                /\ e => exp # << >>,
         tenths |-> IF HasSign(str) /\ Head(str) = "-" THEN -magnitude ELSE magnitude]

\* the form holds, in every field, a number within the range the validation
\* messages state
FormIsValid(form) ==
    /\ \A f \in Fields : form[f] # << >> /\ Denotes(form[f]).ok
    /\ LET income == Denotes(form.income).tenths
           debt == Denotes(form.debt).tenths
           age == Denotes(form.age).tenths
           creditHistory == Denotes(form.creditHistory).tenths
           paymentHistory == Denotes(form.paymentHistory).tenths
       IN  /\ 180 <= age /\ age <= 1000
           /\ 10 <= paymentHistory /\ paymentHistory <= 100
           /\ 0 < income /\ income <= 100000000
           /\ 0 <= debt /\ debt <= income * 100
           /\ 0 <= creditHistory

\* C30: a submission whose input is missing, not a number or out of range
\* ends with a validation error before any encryption or estimation is
\* started, and executeTransaction is never called for it.
C30_InvalidInputIsRejected ==
    [][/\ (~loading /\ pc = "idle" /\ creditData' = creditData /\ ~FormIsValid(creditData))
          => /\ appMessage'.type = "error"
             /\ loading' = FALSE
             /\ plain' = NoPlain
             /\ pc' = "idle"
       /\ (pc = "idle" /\ pc' = "estimate") => FormIsValid(creditData)]_vars

(***************************************************************************)
(* Further properties of the contract (checked under Spec)                 *)
(***************************************************************************)
\* a step in which the call recorded in lastCall' has just been made with
\* success: it emitted an event
Succeeds(op) == lastCall'.op = op /\ lastCall'.result = "ok" /\ events' # events

\* C31: a successful requestLoanApproval changes no stored data: the records,
\* the evaluations, the permitted sets, totalEvaluations and the owner are the
\* same after it; its only effect is one LoanApprovalRequested event of the
\* caller.
C31_RequestChangesNoData ==
    [][Succeeds("requestLoanApproval")
       => /\ UNCHANGED <<owner, totalEvaluations, creditSubmissions, creditEvaluations, acl>>
          /\ events' = events (+) SetToBag({Event("LoanApprovalRequested", lastCall'.sender, now)})]_vars

\* C31 witness: alice's request has succeeded
C31_Witness ==
    /\ lastCall = Call("requestLoanApproval", "alice", "alice", "ok")
    /\ Emitted("LoanApprovalRequested", "alice") = 1
    /\ totalEvaluations = 1

\* C32: after a successful requestLoanApproval by an address, no later
\* submit, evaluate or request for that address succeeds, so at most one
\* LoanApprovalRequested event is emitted per address.
C32_ApprovalRequestedIsTerminal ==
    [][\A u \in Users :
          Emitted("LoanApprovalRequested", u) >= 1
             => ~(lastCall'.user = u /\ lastCall'.result = "ok" /\ events' # events)]_vars

(***************************************************************************)
(* Properties of the order of the adjustments (checked under OrderSpec)    *)
(***************************************************************************)
\* C33: the score does not depend on the order of the twelve adjustments:
\* whatever the order in which they were applied to the 8-bit accumulator,
\* once all are applied the clamped accumulator is the score
\* evaluateCreditScore computes, and stores, for the same record.
C33_OrderOfAdjustmentsIsIrrelevant ==
    applied = 1..NumAdjustments
       => /\ _enforceScoreLimits(accumulator) = ComputeScore(creditSubmissions["alice"])
          /\ Evaluated("alice") => _enforceScoreLimits(accumulator) = StoredScore("alice")

\* C33 witness: all twelve adjustments are applied, the accumulator has
\* wrapped below zero, and the evaluation is stored
C33_Witness ==
    /\ applied = 1..NumAdjustments
    /\ accumulator = 255
    /\ Evaluated("alice")

(***************************************************************************)
(* Further properties of the pipeline (checked under PipeSpec)             *)
(***************************************************************************)
\* C34: every failure the retry loop treats as a user cancellation (code
\* 4001, or a message containing 'user rejected' or 'cancelled by user') is
\* surfaced with the UserCancelled classification and with no other.
C34_CancellationIsClassifiedAsSuch ==
    (pc = "thrown" /\ IsUserCancel(lastError))
       => /\ outcome.kind = "error"
          /\ Category(outcome.message) = "UserCancelled"

(***************************************************************************)
(* Further properties of the rubric (checked under ScoreSpec)              *)
(***************************************************************************)
\* the tenth adjustment, the penalty for a debt above twice the income, takes
\* one point off the score evaluateCreditScore computes for the record d
DoubleIncomePenaltyApplied(d) == Adjustment(10, FAIR_SCORE, d) # FAIR_SCORE

\* C35: the penalty for 'debt > 2 x income' is applied exactly when debt is
\* above twice the income as integers, for every 32-bit income and debt: the
\* doubling does not wrap.
C35_DoublingDoesNotWrap ==
    Evaluated("alice")
       => LET d == creditSubmissions["alice"]
          IN  DoubleIncomePenaltyApplied(d)
                 <=> GtWide(d.encryptedDebt.v, TwiceWide(d.encryptedIncome.v))

(***************************************************************************)
(* Further properties of the contract (checked under Spec)                 *)
(***************************************************************************)
\* C36: in every reachable state where u is evaluated, the stored score and
\* approval are the result of the rubric on the record currently stored
\* for u.
C36_EvaluationMatchesStoredRecord ==
    \A u \in Users :
        Evaluated(u)
           => /\ StoredScore(u) = ComputeScore(creditSubmissions[u])
              /\ StoredApproved(u) = ComputeApproved(StoredScore(u))

\* C37: totalEvaluations equals the number of addresses whose evaluated flag
\* is set, and equals the number of CreditEvaluated events emitted.
C37_CounterMatchesFlagsAndEvents ==
    /\ totalEvaluations = Cardinality({u \in Users : Evaluated(u)})
    /\ totalEvaluations = CountIn({e \in BagToSet(events) : e.name = "CreditEvaluated"}, events)

\* C37 witness: both addresses have been evaluated
C37_Witness ==
    /\ totalEvaluations = 2
    /\ \A u \in Users : Evaluated(u)

(***************************************************************************)
(* Broadcasts of one call (checked under PipeSpec)                         *)
(***************************************************************************)
\* C38: within one call of executeTransaction, once an attempt has broadcast
\* a transaction no later attempt broadcasts another: at most one
\* transaction is ever sent by the call.
C38_AtMostOneBroadcast == txCount <= 1

(***************************************************************************)
(* Widths of the validated plaintexts (checked under ClientSpec)           *)
(***************************************************************************)
\* C39: every plaintext that passes the client's validation fits the width it
\* is encrypted with: income and debt 32 bits, age, creditHistory and
\* paymentHistory 8 bits.
C39_ValidatedValuesFitTheirWidth ==
    plain # NoPlain
       => /\ plain.income >= 0 /\ plain.income \div Limb < Limb
          /\ plain.debt >= 0 /\ plain.debt \div Limb < Limb
          /\ plain.age \in 0..255
          /\ plain.creditHistory \in 0..255
          /\ plain.paymentHistory \in 0..255

(***************************************************************************)
(* Separation of the addresses (checked under Spec)                        *)
(***************************************************************************)
\* the handles stored for v: those of its record and of its evaluation
HandlesOf(v) ==
    (IF Submitted(v)
     THEN {creditSubmissions[v].encryptedIncome.h, creditSubmissions[v].encryptedDebt.h,
           creditSubmissions[v].encryptedAge.h, creditSubmissions[v].encryptedCreditHistory.h,
           creditSubmissions[v].encryptedPaymentHistory.h}
     ELSE {})
      \cup (IF Evaluated(v)
            THEN {creditEvaluations[v].encryptedScore.h, creditEvaluations[v].isApproved.h}
            ELSE {})

\* the permissions granted on the handle h
PermittedOn(a, h) == {x \in a : x[1] = h}

\* C40: a successful submit by u, evaluation of u or request by u leaves the
\* record, the evaluation and the permitted sets of the handles of every
\* other address unchanged, and the owner never changes.
C40_OperationsAffectOnlyTheirSubject ==
    [][/\ owner' = owner
       /\ \A u \in Users :
            (lastCall'.user = u /\ lastCall'.result = "ok" /\ events' # events)
               => \A v \in Users \ {u} :
                     /\ creditSubmissions'[v] = creditSubmissions[v]
                     /\ creditEvaluations'[v] = creditEvaluations[v]
                     /\ \A h \in HandlesOf(v) : PermittedOn(acl', h) = PermittedOn(acl, h)]_vars

====
